---- MODULE Spec2Model ----
(***************************************************************************)
(* Model of hikcam_ocr (src/paddle_ocr.py): an MQTT-triggered capture /    *)
(* OCR / publish station for a Hikvision GigE camera.                      *)
(*                                                                         *)
(* Python strings are sequences of one-character strings, so that          *)
(* re.sub, str.upper, str.startswith and len are computed character by     *)
(* character.  Python values that may or may not be strings are records    *)
(* [type, val].  Confidences are in hundredths (0.8 is 80).  Time is in    *)
(* whole seconds.                                                          *)
(***************************************************************************)
EXTENDS Integers, Sequences, FiniteSets, TLC

VARIABLES
    now,                  \* wall clock, datetime.now(), in seconds
    sent,                 \* number of bus messages delivered so far
    message_queue,        \* Queue(): sequence of [id, target_time]
    pc,                   \* position of the main thread in __main__
    target_time,          \* the trigger the main loop holds, or NoTrigger
    final_result,         \* value returned by capture_and_ocr in this cycle
    camera_initialized,   \* global flag
    consecutive_failures, \* global counter
    cam,                  \* the SDK / device: handle, open, grabbing, sessions
    mqtt_client,          \* "None", "started", "listener_down" or "stopped"
    cycle,                \* what the last capture_and_ocr call did
    last_init,            \* what the last initialize_camera call did
    hist,                 \* per well-formed trigger, by id: what happened to it
    run_failures,         \* failed fetches since the last successful fetch
    probe                 \* argument and result of a pure function under test

vars == <<now, sent, message_queue, pc, target_time, final_result,
          camera_initialized, consecutive_failures, cam, mqtt_client,
          cycle, last_init, hist, run_failures, probe>>

sysVars == <<now, sent, message_queue, pc, target_time, final_result,
             camera_initialized, consecutive_failures, cam, mqtt_client,
             cycle, last_init, hist, run_failures>>

----------------------------------------------------------------------------
(* Bounds of the model *)

\* longest free tail appended to a head when enumerating fix_code inputs
MaxTail == 7
\* most detections in one OCR result when enumerating aggregation inputs
MaxDets == 3
\* bus messages delivered in one run
MaxMessages == 4
\* seconds the clock advances in one run
MaxTime == 1
\* bus messages delivered in one run when progress is checked
MaxLiveMessages == 3

----------------------------------------------------------------------------
(* Configuration, src/paddle_ocr.py lines 46-62 *)

TTL_SECONDS == 5
OCR_CONFIDENCE_THRESHOLD == 80
CAMERA_MAX_FAILURES == 3
ENABLE_CODE_FILTER == TRUE
CODE_PREFIX == <<"L", "K", "T", "T">>
CODE_LENGTH == 10

----------------------------------------------------------------------------
(* Python values *)

PyStr(s) == [type |-> "str", val |-> s]
PyNone == [type |-> "NoneType", val |-> <<>>]
PyInt == [type |-> "int", val |-> <<>>]

isinstance_str(v) == v.type = "str"

\* truthiness of an Optional[str]: None and "" are falsy
truthy(v) == v.type = "str" /\ v.val # <<>>

----------------------------------------------------------------------------
(* Characters *)

LowerCase == <<"a", "b", "c", "d", "e", "f", "g", "h", "i", "j", "k", "l", "m",
               "n", "o", "p", "q", "r", "s", "t", "u", "v", "w", "x", "y", "z">>
UpperCase == <<"A", "B", "C", "D", "E", "F", "G", "H", "I", "J", "K", "L", "M",
               "N", "O", "P", "Q", "R", "S", "T", "U", "V", "W", "X", "Y", "Z">>
Digits == {"0", "1", "2", "3", "4", "5", "6", "7", "8", "9"}

Range(f) == {f[i] : i \in DOMAIN f}

\* the character class [a-zA-Z0-9]
alnum(c) == c \in Range(LowerCase) \cup Range(UpperCase) \cup Digits

\* str.upper() of one ASCII character
upper_char(c) ==
    IF c \in Range(LowerCase)
    THEN UpperCase[CHOOSE i \in DOMAIN LowerCase : LowerCase[i] = c]
    ELSE c

\* re.sub(r"[^a-zA-Z0-9]", "", s)
RECURSIVE re_sub(_)
re_sub(s) ==
    IF s = <<>> THEN <<>>
    ELSE IF alnum(Head(s)) THEN <<Head(s)>> \o re_sub(Tail(s))
    ELSE re_sub(Tail(s))

\* str.upper()
RECURSIVE upper(_)
upper(s) ==
    IF s = <<>> THEN <<>> ELSE <<upper_char(Head(s))>> \o upper(Tail(s))

\* str.startswith(prefix)
startswith(s, prefix) ==
    /\ Len(s) >= Len(prefix)
    /\ SubSeq(s, 1, Len(prefix)) = prefix

----------------------------------------------------------------------------
(* fix_code, lines 83-99 *)

\* a fix_code that forgets to upper-case
fix_code_no_upper(code) ==
    IF ~isinstance_str(code) THEN <<>>
    ELSE LET cleaned_code == re_sub(code.val)
         IN  IF ENABLE_CODE_FILTER
             THEN IF startswith(cleaned_code, CODE_PREFIX)
                     /\ Len(cleaned_code) = CODE_LENGTH
                  THEN cleaned_code
                  ELSE <<>>
             ELSE cleaned_code

\* a fix_code that accepts codes of at least CODE_LENGTH - 1 characters
fix_code_short(code) ==
    IF ~isinstance_str(code) THEN <<>>
    ELSE LET cleaned_code == upper(re_sub(code.val))
         IN  IF ENABLE_CODE_FILTER
             THEN IF startswith(cleaned_code, CODE_PREFIX)
                     /\ Len(cleaned_code) >= CODE_LENGTH - 1
                  THEN cleaned_code
                  ELSE <<>>
             ELSE cleaned_code

fix_code(code) ==
    IF ~isinstance_str(code) THEN <<>>
    ELSE LET cleaned_code == upper(re_sub(code.val))
         IN  IF ENABLE_CODE_FILTER
             THEN IF startswith(cleaned_code, CODE_PREFIX)
                     /\ Len(cleaned_code) = CODE_LENGTH
                  THEN cleaned_code
                  ELSE <<>>
             ELSE cleaned_code

----------------------------------------------------------------------------
(* OCR results and their aggregation, capture_and_ocr lines 217-241 *)

\* one word_info: word_info[1][0] is the text, word_info[1][1] the confidence
Det(text, confidence) == [text |-> text, confidence |-> confidence]

\* one line of ocr.ocr's result: None, or a list of word_infos
Line(words) == [none |-> FALSE, words |-> words]
NoneLine == [none |-> TRUE, words |-> <<>>]

\* the words of all lines that are not None, in order (the two for loops)
RECURSIVE words_of(_)
words_of(lines) ==
    IF lines = <<>> THEN <<>>
    ELSE IF Head(lines).none THEN words_of(Tail(lines))
    ELSE Head(lines).words \o words_of(Tail(lines))

\* a loop body that appends the raw text instead of the cleaned one
RECURSIVE collect_raw(_)
collect_raw(words) ==
    IF words = <<>> THEN <<>>
    ELSE LET word_info == Head(words)
             cleaned_text == fix_code(PyStr(word_info.text))
         IN  IF word_info.confidence > OCR_CONFIDENCE_THRESHOLD /\ cleaned_text # <<>>
             THEN <<word_info.text>> \o collect_raw(Tail(words))
             ELSE collect_raw(Tail(words))

\* a loop body without the test of line 229
RECURSIVE collect_unfiltered(_)
collect_unfiltered(words) ==
    IF words = <<>> THEN <<>>
    ELSE LET word_info == Head(words)
             cleaned_text == fix_code(PyStr(word_info.text))
         IN  IF word_info.confidence > OCR_CONFIDENCE_THRESHOLD
             THEN <<cleaned_text>> \o collect_unfiltered(Tail(words))
             ELSE collect_unfiltered(Tail(words))

\* results as the loop body builds it, lines 225-230
RECURSIVE collect(_)
collect(words) ==
    IF words = <<>> THEN <<>>
    ELSE LET word_info == Head(words)
             cleaned_text == fix_code(PyStr(word_info.text))
         IN  IF word_info.confidence > OCR_CONFIDENCE_THRESHOLD /\ cleaned_text # <<>>
             THEN <<cleaned_text>> \o collect(Tail(words))
             ELSE collect(Tail(words))

count(results, v) == Cardinality({i \in DOMAIN results : results[i] = v})

\* a most_common that returns the last of the values with the highest count
most_common_last(results) ==
    LET last == CHOOSE i \in DOMAIN results :
                    /\ \A j \in DOMAIN results :
                          count(results, results[j]) <= count(results, results[i])
                    /\ \A j \in (i + 1)..Len(results) :
                          count(results, results[j]) < count(results, results[i])
    IN  results[last]

\* Counter(results).most_common(1)[0][0]: a Counter keeps insertion order and
\* most_common(1) is max() over its items, which returns the first maximum
most_common(results) ==
    LET first == CHOOSE i \in DOMAIN results :
                    /\ \A j \in DOMAIN results :
                          count(results, results[j]) <= count(results, results[i])
                    /\ \A j \in 1..(i - 1) :
                          count(results, results[j]) < count(results, results[i])
    IN  results[first]

\* lines 218-241: ocr_results is None (falsy) or a list of lines
aggregate(ocr_results) ==
    LET results == IF ocr_results.none THEN <<>>
                   ELSE collect(words_of(ocr_results.lines))
    IN  IF results = <<>> THEN PyNone ELSE PyStr(most_common(results))

OcrNone == [none |-> TRUE, lines |-> <<>>]
OcrLines(lines) == [none |-> FALSE, lines |-> lines]

----------------------------------------------------------------------------
(* The camera SDK as the program sees it.  MvImport is not part of the      *)
(* repository: a call either succeeds or returns an error code, chosen by   *)
(* the environment.  cam.handle is truthy from a successful CreateHandle to *)
(* DestroyHandle, and MV_CC_IsDeviceConnected() is true while the device is *)
(* open.                                                                    *)

NewCam == [handle |-> FALSE, opened |-> FALSE, grabbing |-> FALSE,
           sw_trigger |-> FALSE, inits |-> 0, finals |-> 0, buffers |-> 0]

MV_CC_Initialize(c) == [c EXCEPT !.inits = @ + 1]
MV_CC_Finalize(c) == [c EXCEPT !.finals = @ + 1]
MV_CC_CreateHandle(c) == [c EXCEPT !.handle = TRUE]
MV_CC_DestroyHandle(c) == [c EXCEPT !.handle = FALSE]
MV_CC_OpenDevice(c) == [c EXCEPT !.opened = TRUE]
MV_CC_CloseDevice(c) ==
    [c EXCEPT !.opened = FALSE, !.grabbing = FALSE, !.sw_trigger = FALSE]
MV_CC_StartGrabbing(c) == [c EXCEPT !.grabbing = TRUE]
MV_CC_StopGrabbing(c) == [c EXCEPT !.grabbing = FALSE]
MV_CC_SetTriggerSoftware(c) == [c EXCEPT !.sw_trigger = TRUE]
MV_CC_GetImageBuffer(c) == [c EXCEPT !.buffers = @ + 1]
MV_CC_FreeImageBuffer(c) == [c EXCEPT !.buffers = @ - 1]

\* the steps of initialize_camera whose return code is tested
InitSteps == {"enum", "create", "open", "start"}

----------------------------------------------------------------------------
(* initialize_camera, lines 101-150 *)

\* the except block, lines 141-150
init_rollback(c) ==
    LET c1 == IF c.opened THEN MV_CC_CloseDevice(c) ELSE c
        c2 == IF c1.handle THEN MV_CC_DestroyHandle(c1) ELSE c1
    IN  MV_CC_Finalize(c2)

\* fail: the first tested step that returns an error ("none": all succeed);
\* cfg_ok: whether the two MV_CC_SetEnumValue calls succeed (their return
\* codes are not looked at, lines 129-130)
initialize_camera(c, fail, cfg_ok) ==
    LET c0 == MV_CC_Initialize(c)
        c1 == MV_CC_CreateHandle(c0)
        c2 == MV_CC_OpenDevice(c1)
        c3 == IF cfg_ok THEN MV_CC_SetTriggerSoftware(c2) ELSE c2
        c4 == MV_CC_StartGrabbing(c3)
    IN  CASE fail = "enum"   -> [cam |-> init_rollback(c0), ok |-> FALSE]
          [] fail = "create" -> [cam |-> init_rollback(c0), ok |-> FALSE]
          [] fail = "open"   -> [cam |-> init_rollback(c1), ok |-> FALSE]
          [] fail = "start"  -> [cam |-> init_rollback(c3), ok |-> FALSE]
          [] OTHER           -> [cam |-> c4, ok |-> TRUE]

----------------------------------------------------------------------------
(* reconnect_camera, lines 152-177 *)

reconnect_camera(c, fail, cfg_ok) ==
    LET c1 == IF c.opened THEN MV_CC_CloseDevice(MV_CC_StopGrabbing(c)) ELSE c
        c2 == IF c1.handle THEN MV_CC_DestroyHandle(c1) ELSE c1
    IN  initialize_camera(c2, fail, cfg_ok)

----------------------------------------------------------------------------
(* The pieces of capture_and_ocr and of the main loop that decide *)

\* a freshness window one second too wide
expired_late(t_now, t_issued) == t_now - t_issued > TTL_SECONDS + 1

\* lines 266 and 312: (datetime.now() - target_time).total_seconds() > TTL_SECONDS
expired(t_now, t_issued) == t_now - t_issued > TTL_SECONDS

\* a test that is off by one
reconnect_due_late(failures) == failures > CAMERA_MAX_FAILURES

\* line 198
reconnect_due(failures) == failures >= CAMERA_MAX_FAILURES

\* a release at the end of the try block instead of in finally
free_on_success_only(frame_out_set, ret_ok, raised) ==
    frame_out_set /\ ret_ok /\ ~raised

\* line 249, the finally block: ret is bound and MV_OK
free_in_finally(frame_out_set, ret_ok, raised) == frame_out_set /\ ret_ok

\* a main loop that captures once more when the first capture gave nothing
after_capture_retry(result) ==
    IF truthy(result) THEN "publish"
    ELSE IF hist[target_time.id].calls = 0 THEN "capture" ELSE "wait"

\* a main loop that stays in a capture that gave nothing
after_capture_stuck(result) == IF truthy(result) THEN "publish" ELSE "stuck"

\* a main loop that publishes whatever capture_and_ocr returned
after_capture_always(result) == "publish"

\* lines 317-320: what the main loop does with the value capture_and_ocr returned
after_capture(result) == IF truthy(result) THEN "publish" ELSE "wait"

\* a loop whose except clause lets an exception of publish through to finally
after_publish_escape(raised) == IF raised THEN "cleanup" ELSE "wait"

\* lines 319-326: where the main loop goes after mqtt_client.publish
after_publish(raised) == "wait"

\* a reconnect that clears the counter whether it succeeded or not
failures_after_reconnect_reset(ok, failures) == 0

\* lines 199-202: consecutive_failures after reconnect_camera returned ok
failures_after_reconnect(ok, failures) == IF ok THEN 0 ELSE failures

\* a LifoQueue in place of the Queue
put_first(q, item) == <<item>> \o q

\* line 270: message_queue.put(target_time)
put(q, item) == Append(q, item)

\* a handler that empties the queue when the payload is no timestamp
on_mqtt_message_flush(q, payload, t_now, id) ==
    IF payload.kind # "time" THEN <<>>
    ELSE IF expired(t_now, payload.t) THEN q
    ELSE put(q, [id |-> id, issued |-> payload.t])

\* on_mqtt_message, lines 258-276: the queue after the handler.  A payload
\* that is no timestamp raises ValueError at line 259 or 263 and is dropped.
on_mqtt_message(q, payload, t_now, id) ==
    IF payload.kind # "time" THEN q
    ELSE IF expired(t_now, payload.t) THEN q
    ELSE put(q, [id |-> id, issued |-> payload.t])

\* lines 333-340: the hardware calls of the camera teardown
teardown_calls(initialized) ==
    IF initialized
    THEN <<"MV_CC_StopGrabbing", "MV_CC_CloseDevice", "MV_CC_DestroyHandle",
           "MV_CC_Finalize">>
    ELSE <<>>

camera_teardown(initialized, c) ==
    IF initialized
    THEN MV_CC_Finalize(MV_CC_DestroyHandle(MV_CC_CloseDevice(MV_CC_StopGrabbing(c))))
    ELSE c

----------------------------------------------------------------------------
(* State *)

NoTrigger == [id |-> 0, issued |-> 0]

NoCycle == [id |-> 0, fetch_ok |-> FALSE, raised |-> FALSE, ocr |-> OcrNone,
            failures_before |-> 0, reconnects |-> 0, reconnect_ok |-> FALSE,
            slept |-> FALSE, publish |-> "none"]

NoInit == [ran |-> FALSE, fail |-> "none", cfg_ok |-> TRUE, ok |-> FALSE,
           finals_before |-> 0]

\* what happened to one trigger: older than TTL_SECONDS at ingestion or at dequeue,
\* capture_and_ocr calls, TriggerSoftware commands, frame fetches, publishes
NewHist(stale) ==
    [stale |-> stale, calls |-> 0, triggers |-> 0, fetches |-> 0,
     published |-> <<>>]

NoProbe == [fn |-> "none", arg |-> PyNone, done |-> FALSE, ret |-> PyNone]

SysInit ==
    /\ now = 0
    /\ sent = 0
    /\ message_queue = <<>>
    /\ pc = "start"
    /\ target_time = NoTrigger
    /\ final_result = PyNone
    /\ camera_initialized = FALSE
    /\ consecutive_failures = 0
    /\ cam = NewCam
    /\ mqtt_client = "None"
    /\ cycle = NoCycle
    /\ last_init = NoInit
    /\ hist = <<>>
    /\ run_failures = 0

Init == SysInit /\ probe = NoProbe

InitRecord(c, fail, cfg_ok, r) ==
    [ran |-> TRUE, fail |-> fail, cfg_ok |-> cfg_ok, ok |-> r.ok,
     finals_before |-> c.finals]

----------------------------------------------------------------------------
(* __main__, lines 283-349 *)

\* lines 285-287
Startup ==
    /\ pc = "start"
    /\ \E fail \in InitSteps \cup {"none"}, cfg_ok \in BOOLEAN :
          LET r == initialize_camera(cam, fail, cfg_ok)
          IN  /\ cam' = r.cam
              /\ camera_initialized' = r.ok
              /\ last_init' = InitRecord(cam, fail, cfg_ok, r)
              /\ pc' = IF r.ok THEN "mqtt" ELSE "exited"
    /\ UNCHANGED <<now, sent, message_queue, target_time, final_result,
                   consecutive_failures, mqtt_client, cycle, hist, run_failures,
                   probe>>

\* lines 290-302: new_client() or loop_start() may raise
StartMqtt ==
    /\ pc = "mqtt"
    /\ \E ok \in BOOLEAN :
          IF ok
          THEN /\ mqtt_client' = "started"
               /\ pc' = "wait"
               /\ cam' = cam
          ELSE /\ mqtt_client' = mqtt_client
               /\ cam' = camera_teardown(camera_initialized, cam)
               /\ pc' = "exited"
    /\ UNCHANGED <<now, sent, message_queue, target_time, final_result,
                   camera_initialized, consecutive_failures, cycle, last_init,
                   hist, run_failures, probe>>

\* the payloads the bus delivers: a timestamp that is current, at the edge of
\* the freshness window or past it, a text that is no timestamp, or bytes
\* that are not UTF-8
Payloads ==
    {[kind |-> "time", t |-> now - d] : d \in {0, TTL_SECONDS, TTL_SECONDS + 1}}
        \cup {[kind |-> "malformed", t |-> 0], [kind |-> "bad_utf8", t |-> 0]}

\* on_mqtt_message, lines 254-276, on the client's own thread.  For bytes
\* that are not UTF-8 the except ValueError clause formats payload, which is
\* unbound: that NameError leaves the handler, and the client's thread either
\* survives it or ends ("listener_down").
Listener(max) ==
    /\ mqtt_client = "started"
    /\ sent < max
    /\ \E payload \in Payloads :
          /\ sent' = sent + 1
          /\ hist' = IF payload.kind = "time"
                     THEN Append(hist, NewHist(now - payload.t > TTL_SECONDS))
                     ELSE hist
          /\ message_queue' =
                on_mqtt_message(message_queue, payload, now, Len(hist) + 1)
          /\ IF payload.kind = "bad_utf8"
             THEN mqtt_client' \in {"started", "listener_down"}
             ELSE mqtt_client' = mqtt_client
    /\ UNCHANGED <<now, pc, target_time, final_result, camera_initialized,
                   consecutive_failures, cam, cycle, last_init,
                   run_failures, probe>>

OnMqttMessage == Listener(MaxMessages)

\* lines 309-314: get() returns a trigger that has expired in the queue
DequeueStale ==
    /\ pc = "wait"
    /\ message_queue # <<>>
    /\ expired(now, Head(message_queue).issued)
    /\ target_time' = Head(message_queue)
    /\ message_queue' = Tail(message_queue)
    /\ hist' = [hist EXCEPT ![Head(message_queue).id].stale =
                                @ \/ now - Head(message_queue).issued > TTL_SECONDS]
    /\ UNCHANGED <<now, sent, pc, final_result, camera_initialized,
                   consecutive_failures, cam, mqtt_client, cycle, last_init,
                   run_failures, probe>>

\* lines 309-317: get() returns a fresh trigger
DequeueFresh ==
    /\ pc = "wait"
    /\ message_queue # <<>>
    /\ ~expired(now, Head(message_queue).issued)
    /\ target_time' = Head(message_queue)
    /\ message_queue' = Tail(message_queue)
    /\ hist' = [hist EXCEPT ![Head(message_queue).id].stale =
                                @ \/ now - Head(message_queue).issued > TTL_SECONDS]
    /\ pc' = "capture"
    /\ UNCHANGED <<now, sent, final_result, camera_initialized,
                   consecutive_failures, cam, mqtt_client, cycle, last_init,
                   run_failures, probe>>

\* lines 309, 322-323: get() times out
QueueEmpty ==
    /\ pc = "wait"
    /\ message_queue = <<>>
    /\ UNCHANGED vars

----------------------------------------------------------------------------
(* capture_and_ocr, lines 179-251, called from line 317 *)

T9 == <<"L", "K", "T", "T", "9", "9", "8", "8", "7">>
T10 == <<"L", "K", "T", "T", "9", "9", "8", "8", "7", "7">>

\* what image conversion and ocr.ocr do with a fetched frame: one of them
\* raises, or ocr.ocr returns None or one line with one detection
ProcOutcomes ==
    {[raised |-> TRUE, ocr |-> OcrNone]}
        \cup {[raised |-> FALSE, ocr |-> o] :
                o \in {OcrNone, OcrLines(<<Line(<<Det(T9, 92)>>)>>),
                       OcrLines(<<Line(<<Det(T10, 92)>>)>>)}}

\* lines 206-246: what capture_and_ocr returns for each of them, None from
\* the except block or the aggregation's value
capture_result ==
    [out \in ProcOutcomes |-> IF out.raised THEN PyNone ELSE aggregate(out.ocr)]

Called(h) == [h EXCEPT !.calls = @ + 1, !.triggers = @ + 1, !.fetches = @ + 1]

\* MV_CC_GetImageBuffer returns MV_OK (only a grabbing device delivers a frame)
CaptureFetchOk ==
    /\ pc = "capture"
    /\ cam.grabbing
    /\ \E out \in ProcOutcomes :
          LET c1 == MV_CC_GetImageBuffer(cam)
              result == capture_result[out]
          IN  /\ cam' = IF free_in_finally(TRUE, TRUE, out.raised)
                        THEN MV_CC_FreeImageBuffer(c1)
                        ELSE c1
              /\ final_result' = result
              /\ pc' = after_capture(result)
              /\ cycle' = [id |-> target_time.id, fetch_ok |-> TRUE,
                           raised |-> out.raised, ocr |-> out.ocr,
                           failures_before |-> consecutive_failures,
                           reconnects |-> 0, reconnect_ok |-> FALSE,
                           slept |-> FALSE, publish |-> "none"]
    /\ consecutive_failures' = 0
    /\ run_failures' = 0
    /\ hist' = [hist EXCEPT ![target_time.id] = Called(@)]
    /\ UNCHANGED <<now, sent, message_queue, target_time, camera_initialized,
                   mqtt_client, last_init, probe>>

\* MV_CC_GetImageBuffer returns an error code, lines 195-203
CaptureFetchFails ==
    /\ pc = "capture"
    /\ LET failures == consecutive_failures + 1
       IN  IF reconnect_due(failures)
           THEN \E fail \in InitSteps \cup {"none"}, cfg_ok \in BOOLEAN :
                   LET r == reconnect_camera(cam, fail, cfg_ok)
                   IN  /\ cam' = r.cam
                       /\ camera_initialized' = r.ok
                       /\ last_init' = InitRecord(cam, fail, cfg_ok, r)
                       /\ consecutive_failures' = failures_after_reconnect(r.ok, failures)
                       /\ cycle' = [id |-> target_time.id, fetch_ok |-> FALSE,
                                    raised |-> FALSE, ocr |-> OcrNone,
                                    failures_before |-> consecutive_failures,
                                    reconnects |-> 1, reconnect_ok |-> r.ok,
                                    slept |-> TRUE, publish |-> "none"]
           ELSE /\ consecutive_failures' = failures
                /\ cycle' = [id |-> target_time.id, fetch_ok |-> FALSE,
                             raised |-> FALSE, ocr |-> OcrNone,
                             failures_before |-> consecutive_failures,
                             reconnects |-> 0, reconnect_ok |-> FALSE,
                             slept |-> FALSE, publish |-> "none"]
                /\ UNCHANGED <<cam, camera_initialized, last_init>>
    /\ final_result' = PyNone
    /\ pc' = after_capture(PyNone)
    /\ run_failures' = run_failures + 1
    /\ hist' = [hist EXCEPT ![target_time.id] = Called(@)]
    /\ UNCHANGED <<now, sent, message_queue, target_time, mqtt_client, probe>>

\* lines 318-320 and 324-326: mqtt_client.publish is called with the code; it
\* returns, or it raises and the loop's except Exception takes over
Publish ==
    /\ pc = "publish"
    /\ hist' = [hist EXCEPT ![target_time.id].published = Append(@, final_result.val)]
    /\ \E raised \in BOOLEAN :
          /\ cycle' = [cycle EXCEPT !.publish = IF raised THEN "raised" ELSE "ok"]
          /\ pc' = after_publish(raised)
    /\ UNCHANGED <<now, sent, message_queue, target_time, final_result,
                   camera_initialized, consecutive_failures, cam, mqtt_client,
                   last_init, run_failures, probe>>

\* line 328: KeyboardInterrupt anywhere in the main loop
Interrupt ==
    /\ pc \in {"wait", "capture", "publish"}
    /\ pc' = "cleanup"
    /\ UNCHANGED <<now, sent, message_queue, target_time, final_result,
                   camera_initialized, consecutive_failures, cam, mqtt_client,
                   cycle, last_init, hist, run_failures, probe>>

\* lines 330-349, the finally block
Cleanup ==
    /\ pc = "cleanup"
    /\ cam' = camera_teardown(camera_initialized, cam)
    /\ mqtt_client' = IF mqtt_client # "None" THEN "stopped" ELSE mqtt_client
    /\ pc' = "exited"
    /\ UNCHANGED <<now, sent, message_queue, target_time, final_result,
                   camera_initialized, consecutive_failures, cycle, last_init,
                   hist, run_failures, probe>>

\* the clock
Tick ==
    /\ now < MaxTime
    /\ pc # "exited"
    /\ now' = now + 1
    /\ UNCHANGED <<sent, message_queue, pc, target_time, final_result,
                   camera_initialized, consecutive_failures, cam, mqtt_client,
                   cycle, last_init, hist, run_failures, probe>>

Next ==
    \/ Startup
    \/ StartMqtt
    \/ OnMqttMessage
    \/ DequeueStale
    \/ DequeueFresh
    \/ QueueEmpty
    \/ CaptureFetchOk
    \/ CaptureFetchFails
    \/ Publish
    \/ Interrupt
    \/ Cleanup
    \/ Tick

Spec == Init /\ [][Next]_vars

\* The main thread runs whenever it can: get() returns within its timeout of
\* one second (line 309), every SDK call of capture_and_ocr returns within
\* its timeout (line 189) and publish returns or raises.  Nothing is assumed
\* of the bus, the clock or the operator.
MainLoopFair ==
    /\ WF_vars(DequeueStale \/ DequeueFresh)
    /\ WF_vars(CaptureFetchOk \/ CaptureFetchFails)
    /\ WF_vars(Publish)

\* the same program with fewer messages on the bus
OnMqttMessageLive == Listener(MaxLiveMessages)

NextLive ==
    \/ Startup
    \/ StartMqtt
    \/ OnMqttMessageLive
    \/ DequeueStale
    \/ DequeueFresh
    \/ QueueEmpty
    \/ CaptureFetchOk
    \/ CaptureFetchFails
    \/ Publish
    \/ Interrupt
    \/ Cleanup
    \/ Tick

SpecLive == Init /\ [][NextLive]_vars /\ MainLoopFair

----------------------------------------------------------------------------
(* fix_code on its own: every input of FixInputs, one call *)

Heads ==
    {<<>>,
     <<"L", "K", "T", "T">>,
     <<"l", "k", "t", "t">>,
     <<"L", "k", "-", "T", "t", " ">>,
     <<"L", "K", "T">>,
     <<"X", "X", "T", "T">>,
     <<"1", "L", "K", "T", "T">>}

TailChars == {"1", "a", "-"}

Tails == UNION {[1..n -> TailChars] : n \in 0..MaxTail}

FixInputs == {PyNone, PyInt} \cup {PyStr(h \o t) : h \in Heads, t \in Tails}

InitFix ==
    /\ SysInit
    /\ probe \in {[fn |-> "fix_code", arg |-> a, done |-> FALSE, ret |-> PyNone] :
                    a \in FixInputs}

CallFixCode ==
    /\ probe.fn = "fix_code"
    /\ ~probe.done
    /\ probe' = [probe EXCEPT !.done = TRUE, !.ret = PyStr(fix_code(probe.arg))]
    /\ UNCHANGED sysVars

SpecFix == InitFix /\ [][CallFixCode]_vars

----------------------------------------------------------------------------
(* The aggregation of capture_and_ocr on its own: every OCR result of      *)
(* AggInputs, one call                                                     *)

A9 == <<"L", "K", "T", "T", "1", "2", "3", "4", "5">>
a9 == <<"l", "k", "t", "t", "1", "2", "3", "4", "5">>
A10 == <<"L", "K", "T", "T", "1", "2", "3", "4", "5", "6">>
a10 == <<"l", "k", "t", "t", "1", "2", "3", "4", "5", "6">>
B10 == <<"L", "K", "T", "T", "6", "5", "4", "3", "2", "1">>
b10 == <<"L", "K", "T", "T", "-", "6", "5", "4", "3", "2", "1">>
Other == <<"o", "t", "h", "e", "r">>

DetPool ==
    {Det(A9, 90), Det(a9, 85), Det(Other, 95),
     Det(A10, 90), Det(a10, 85), Det(a10, 80),
     Det(b10, 95), Det(B10, 81), Det(B10, 50)}

DetLists == UNION {[1..n -> DetPool] : n \in 0..MaxDets}

\* None, an empty result, a None line, all detections on one line, or the
\* detections on two lines with a None line between them
AggInputs ==
    {OcrNone, OcrLines(<<>>), OcrLines(<<NoneLine>>)}
        \cup {OcrLines(<<Line(ws)>>) : ws \in DetLists}
        \cup {OcrLines(<<Line(SubSeq(ws, 1, 1)), NoneLine,
                         Line(SubSeq(ws, 2, Len(ws)))>>) :
                ws \in {w \in DetLists : Len(w) >= 2}}

InitAgg ==
    /\ SysInit
    /\ probe \in {[fn |-> "aggregate", arg |-> a, done |-> FALSE, ret |-> PyNone] :
                    a \in AggInputs}

CallAggregate ==
    /\ probe.fn = "aggregate"
    /\ ~probe.done
    /\ probe' = [probe EXCEPT !.done = TRUE, !.ret = aggregate(probe.arg)]
    /\ UNCHANGED sysVars

SpecAgg == InitAgg /\ [][CallAggregate]_vars

----------------------------------------------------------------------------
(* Properties *)

\* C1: a trigger older than TTL_SECONDS when on_mqtt_message receives it or
\* when the main loop dequeues it gets no capture attempt: no capture_and_ocr
\* call, no software trigger, no frame fetch.
C1_NoCaptureForStale ==
    \A i \in DOMAIN hist :
        hist[i].stale =>
            hist[i].calls = 0 /\ hist[i].triggers = 0 /\ hist[i].fetches = 0

\* trigger i went stale in the queue and was dequeued, trigger j arrived stale
C1_Witness ==
    \E i, j \in DOMAIN hist :
        /\ i < j
        /\ target_time.id = i
        /\ hist[i].stale
        /\ hist[j].stale
        /\ pc = "wait"

\* C2: whatever the detections, a value returned by the aggregation is one
\* fix_code accepts: fix_code of it is that same, non-empty value.
C2_AggregateAccepted ==
    (probe.done /\ probe.ret.type = "str") =>
        /\ probe.ret.val # <<>>
        /\ fix_code(probe.ret) = probe.ret.val

\* a lower-case detection is returned in its normalized form
C2_Witness ==
    /\ probe.done
    /\ probe.arg = OcrLines(<<Line(<<Det(a10, 85), Det(Other, 95)>>)>>)
    /\ probe.ret = PyStr(A10)

\* the input with every character outside [a-zA-Z0-9] removed, upper-cased
StrippedUpper(s) ==
    LET keep(c) == alnum(c)
        kept == SelectSeq(s, keep)
    IN  [i \in 1..Len(kept) |-> upper_char(kept[i])]

\* C3: with the filter enabled fix_code returns the stripped, upper-cased form
\* of a string input when that form starts with CODE_PREFIX and has length
\* exactly CODE_LENGTH, and the empty string for every other input, a
\* non-string included.
C3_FixCodeFilter ==
    (probe.done /\ ENABLE_CODE_FILTER) =>
        LET form == StrippedUpper(probe.arg.val)
            accepted == /\ probe.arg.type = "str"
                        /\ Len(form) = CODE_LENGTH
                        /\ \A i \in 1..Len(CODE_PREFIX) : form[i] = CODE_PREFIX[i]
        IN  probe.ret.val = IF accepted THEN form ELSE <<>>

\* an accepted input that had characters to strip and letters to upper-case
C3_Witness ==
    /\ probe.done
    /\ probe.ret.val # <<>>
    /\ Len(probe.arg.val) > CODE_LENGTH
    /\ \E i \in DOMAIN probe.arg.val : probe.arg.val[i] \in Range(LowerCase)

C4Input == OcrLines(<<Line(<<Det(A9, 90), Det(a9, 85), Det(Other, 95)>>)>>)
C4Input10 == OcrLines(<<Line(<<Det(A10, 90), Det(a10, 85), Det(Other, 95)>>)>>)

\* C4 as claimed: aggregating ("LKTT12345", 0.9), ("lktt12345", 0.85),
\* ("other", 0.95) returns "LKTT12345".
C4_Original ==
    (probe.done /\ probe.arg = C4Input) => probe.ret = PyStr(A9)

\* C4 as amended: those three detections give no code, because "LKTT12345" has
\* 9 characters and CODE_LENGTH is 10; with the 10-character "LKTT123456" and
\* "lktt123456" in their place the result is "LKTT123456".
C4_Amended ==
    probe.done =>
        /\ probe.arg = C4Input => probe.ret = PyNone
        /\ probe.arg = C4Input10 => probe.ret = PyStr(A10)

C4_Witness == probe.done /\ probe.arg = C4Input

Ocr9 == OcrLines(<<Line(<<Det(T9, 92)>>)>>)
Ocr10 == OcrLines(<<Line(<<Det(T10, 92)>>)>>)

\* the last capture_and_ocr call fetched a frame and OCR returned ocr
Recognized(ocr) ==
    cycle.id # 0 /\ cycle.fetch_ok /\ ~cycle.raised /\ cycle.ocr = ocr

\* C5 as claimed: a fresh trigger, a fetched frame and the one detection
\* ("LKTT99887", 0.92) give exactly one publish of "LKTT99887", and
\* consecutive_failures is 0 afterwards.
C5_Original ==
    (Recognized(Ocr9) /\ pc = "wait") =>
        /\ hist[cycle.id].published = <<T9>>
        /\ consecutive_failures = 0

\* C5 as amended: the one detection ("LKTT99887", 0.92), 9 characters, gives
\* no publish; the one detection ("LKTT998877", 0.92), 10 characters, gives
\* exactly one publish of "LKTT998877" once the cycle is over (none if the
\* loop is interrupted before the publish); in both cases
\* consecutive_failures is 0 afterwards.
C5_Amended ==
    /\ Recognized(Ocr9) =>
          /\ hist[cycle.id].published = <<>>
          /\ consecutive_failures = 0
    /\ Recognized(Ocr10) =>
          /\ hist[cycle.id].published \in {<<>>, <<T10>>}
          /\ pc \in {"wait", "capture"} => hist[cycle.id].published = <<T10>>
          /\ consecutive_failures = 0

C5_Witness ==
    /\ Recognized(Ocr10)
    /\ pc = "wait"
    /\ hist[cycle.id].published = <<T10>>

\* C6 as claimed: reconnect_camera runs exactly when the run of consecutive
\* fetch failures reaches CAMERA_MAX_FAILURES, and not a second time in the
\* same run of failures; a successful fetch sets consecutive_failures to 0.
C6_Original ==
    /\ cycle.reconnects = 1 => run_failures = CAMERA_MAX_FAILURES
    /\ (cycle.id # 0 /\ cycle.fetch_ok) => consecutive_failures = 0

\* C6 as amended: a failed fetch that brings consecutive_failures to
\* CAMERA_MAX_FAILURES or more makes capture_and_ocr call reconnect_camera
\* exactly once in that call, and no call reconnects at fewer consecutive
\* failures.  A successful fetch or a successful reconnect sets the counter
\* to 0; a failed reconnect leaves it at or above the threshold, so every
\* further failed fetch of the same run reconnects again.
C6_Amended ==
    /\ cycle.reconnects \in {0, 1}
    /\ cycle.reconnects = 1 <=>
          /\ cycle.id # 0
          /\ ~cycle.fetch_ok
          /\ cycle.failures_before + 1 >= CAMERA_MAX_FAILURES
    /\ cycle.reconnects = 1 => run_failures >= CAMERA_MAX_FAILURES
    /\ (cycle.id # 0 /\ ~cycle.fetch_ok /\ run_failures = CAMERA_MAX_FAILURES)
          => cycle.reconnects = 1
    /\ (cycle.id # 0 /\ cycle.fetch_ok) =>
          consecutive_failures = 0 /\ run_failures = 0
    /\ (cycle.reconnects = 1 /\ cycle.reconnect_ok) => consecutive_failures = 0
    /\ (cycle.reconnects = 1 /\ ~cycle.reconnect_ok) =>
          /\ consecutive_failures = cycle.failures_before + 1
          /\ consecutive_failures >= CAMERA_MAX_FAILURES
    /\ consecutive_failures <= run_failures

\* a second reconnect in one run of failures, after the first one failed
C6_Witness ==
    /\ cycle.reconnects = 1
    /\ run_failures = CAMERA_MAX_FAILURES + 1
    /\ cycle.failures_before = CAMERA_MAX_FAILURES

\* C7: capture_and_ocr never returns with an unreleased image buffer.
C7_NoUnreleasedBuffer == cam.buffers = 0

\* a frame was fetched and image conversion or OCR raised
C7_Witness == cycle.id # 0 /\ cycle.fetch_ok /\ cycle.raised /\ cam.buffers = 0

\* C8: after the program's camera teardown has run, running it again issues
\* no hardware call.
C8_TeardownIdempotent ==
    pc = "exited" => teardown_calls(camera_initialized) = <<>>

\* C9: a dequeued trigger leads to at most one capture_and_ocr call, one
\* software trigger and one frame fetch, a reconnect in that call included.
C9_NoRetry ==
    \A i \in DOMAIN hist :
        hist[i].calls <= 1 /\ hist[i].triggers <= 1 /\ hist[i].fetches <= 1

\* a trigger whose fetch failed and whose call reconnected successfully
C9_Witness ==
    /\ cycle.id # 0
    /\ cycle.reconnects = 1
    /\ cycle.reconnect_ok
    /\ pc = "wait"
    /\ hist[cycle.id].calls = 1

\* C10: initialize_camera returns True with camera_initialized = True only
\* when enumerate, create handle, open, the trigger configuration and start
\* grabbing all succeeded; otherwise it returns False, camera_initialized is
\* False, the device is closed, the handle destroyed and the SDK finalized.
C10_ReadyOnlyAfterAllSteps ==
    last_init.ran =>
        /\ last_init.ok <=> (last_init.fail = "none" /\ last_init.cfg_ok)
        /\ ~last_init.ok =>
              /\ ~camera_initialized
              /\ ~cam.opened
              /\ ~cam.handle
              /\ cam.finals > last_init.finals_before

LoopPcs == {"wait", "capture", "publish"}

\* C11: inside the main loop no step but a KeyboardInterrupt leaves the loop:
\* a stale trigger, a queue timeout, a failed fetch, a failed reconnect, an
\* exception in processing, a recognition miss and an exception of publish
\* all lead back to the queue wait; and the program exits only from a failed
\* startup or from the teardown that follows the interrupt.
C11_LoopGoesOn ==
    [][/\ pc \in LoopPcs => (pc' \in LoopPcs \/ Interrupt)
       /\ (pc = "capture" /\ pc' \in LoopPcs \ {pc} /\ ~truthy(final_result'))
             => pc' = "wait"
       /\ (pc = "publish" /\ pc' \in LoopPcs \ {pc}) => pc' = "wait"
       /\ (pc = "wait" /\ Len(message_queue') < Len(message_queue)
             /\ now - target_time'.issued > TTL_SECONDS) => pc' = "wait"
       /\ (pc' = "exited" /\ pc # "exited") => pc \in {"start", "mqtt", "cleanup"}
       /\ (pc' = "cleanup" /\ pc # "cleanup") => pc \in LoopPcs]_vars

\* publish raised and the loop is back at the queue wait
C11_Witness == cycle.publish = "raised" /\ pc = "wait"

\* C12: a publish happens only as the last step of a cycle whose trigger was
\* dequeued fresh, whose frame was fetched and whose aggregation returned a
\* non-empty code; a trigger is published at most once, and a cycle that ends
\* stale, without frame or without code publishes nothing.
C12_PublishOnlyOnSuccess ==
    /\ [](\A i \in DOMAIN hist :
            /\ Len(hist[i].published) <= 1
            /\ hist[i].published # <<>> => (hist[i].calls = 1 /\ ~hist[i].stale)
            /\ hist[i].stale => hist[i].published = <<>>)
    /\ [][\A i \in DOMAIN hist :
            hist'[i].published # hist[i].published =>
                /\ pc = "publish"
                /\ pc' \in {"wait"}
                /\ i = target_time.id
                /\ i = cycle.id
                /\ cycle.fetch_ok
                /\ ~cycle.raised
                /\ final_result = aggregate(cycle.ocr)
                /\ truthy(final_result)
                /\ hist[i].published = <<>>
                /\ hist'[i].published = <<final_result.val>>]_vars

\* one trigger was published, a later one was captured and gave nothing
C12_Witness ==
    \E i, j \in DOMAIN hist :
        /\ i < j
        /\ hist[i].published # <<>>
        /\ target_time.id = j
        /\ hist[j].calls = 1
        /\ hist[j].published = <<>>
        /\ pc = "wait"

\* C13: a software trigger or a frame fetch is issued only while
\* camera_initialized is True.
C13_CaptureOnlyWhenReady ==
    [][\A i \in DOMAIN hist :
          (hist'[i].triggers > hist[i].triggers \/ hist'[i].fetches > hist[i].fetches)
              => camera_initialized]_vars

\* C14: a reconnect started by capture_and_ocr includes the settle wait and
\* the call returns None; when it succeeded camera_initialized is True and
\* consecutive_failures is 0, when it failed camera_initialized is False and
\* consecutive_failures keeps its incremented value.  After startup
\* MV_CC_Initialize runs only inside a capture_and_ocr call for a trigger not
\* captured before, once, after that call's failed fetch.
C14_ReconnectOutcome ==
    /\ [](cycle.reconnects = 1 =>
            /\ cycle.slept
            /\ ~cycle.fetch_ok
            /\ final_result = PyNone
            /\ cycle.reconnect_ok =>
                  (camera_initialized /\ consecutive_failures = 0)
            /\ ~cycle.reconnect_ok =>
                  /\ ~camera_initialized
                  /\ consecutive_failures = cycle.failures_before + 1
                  /\ consecutive_failures >= CAMERA_MAX_FAILURES)
    /\ [][(cam'.inits > cam.inits /\ pc # "start") =>
            /\ pc = "capture"
            /\ pc' = "wait"
            /\ cam'.inits = cam.inits + 1
            /\ hist[target_time.id].calls = 0
            /\ hist'[target_time.id].fetches = 1
            /\ cycle'.id = target_time.id
            /\ ~cycle'.fetch_ok]_vars

\* a reconnect failed and the loop is back at the queue wait
C14_Witness ==
    /\ cycle.reconnects = 1
    /\ ~cycle.reconnect_ok
    /\ ~camera_initialized
    /\ pc = "wait"

\* C15: after the interrupt's teardown nothing of the camera is held,
\* whatever state the loop and the device were in: acquisition is stopped,
\* the device closed, the handle destroyed, every MV_CC_Initialize matched by
\* a MV_CC_Finalize, and the bus client stopped.
C15_TeardownReleasesAll ==
    (pc = "exited" /\ mqtt_client # "None") =>
        /\ mqtt_client = "stopped"
        /\ ~cam.grabbing
        /\ ~cam.opened
        /\ ~cam.handle
        /\ cam.inits = cam.finals

InQueue(id) == \E k \in DOMAIN message_queue : message_queue[k].id = id

\* C16: the queue holds the admitted triggers that were not dequeued yet, in
\* the order of their admission and each once; a step changes it only by
\* on_mqtt_message appending one new trigger at the end or by the main loop
\* taking the head, and what the main loop takes was the head.  While a
\* capture cycle is in progress the listener can still admit a trigger.
C16_QueueFifo ==
    /\ [](/\ \A k \in DOMAIN message_queue :
                /\ message_queue[k].id \in (target_time.id + 1)..Len(hist)
                /\ \A l \in DOMAIN message_queue :
                      k < l => message_queue[k].id < message_queue[l].id
          /\ (pc \in {"capture", "publish"} /\ mqtt_client = "started"
                 /\ sent < MaxMessages) => ENABLED OnMqttMessage)
    /\ [][/\ message_queue' # message_queue =>
                \/ /\ Len(hist') = Len(hist) + 1
                   /\ message_queue' =
                         Append(message_queue,
                                [id |-> Len(hist'),
                                 issued |-> message_queue'[Len(message_queue')].issued])
                   /\ target_time' = target_time
                   /\ pc' = pc
                \/ /\ pc = "wait"
                   /\ message_queue # <<>>
                   /\ message_queue' = Tail(message_queue)
                   /\ target_time' = Head(message_queue)
                   /\ hist[target_time'.id].calls = 0
          /\ target_time' # target_time =>
                /\ message_queue # <<>>
                /\ target_time' = Head(message_queue)
                /\ message_queue' = Tail(message_queue)]_vars

\* two triggers wait in order while the cycle of an earlier one is running
C16_Witness ==
    /\ pc = "capture"
    /\ target_time.id >= 1
    /\ Len(message_queue) = 2
    /\ message_queue[1].id = target_time.id + 1
    /\ message_queue[2].id = target_time.id + 2

\* C17: a payload that is no timestamp changes nothing but the count of
\* received messages (and, for bytes that are not UTF-8, the state of the
\* listener): the queue keeps its triggers in their order, and the main loop,
\* the camera and the published values are as before.
C17_UnparsableDropped ==
    [][(sent' = sent + 1 /\ Len(hist') = Len(hist)) =>
          /\ message_queue' = message_queue
          /\ hist' = hist
          /\ pc' = pc
          /\ target_time' = target_time
          /\ final_result' = final_result
          /\ cam' = cam
          /\ cycle' = cycle]_vars

\* bytes that are not UTF-8 arrived while a trigger was waiting in the queue
C17_Witness ==
    /\ mqtt_client = "listener_down"
    /\ message_queue # <<>>
    /\ pc = "wait"

\* the detections of an OCR result in detection order
Detections(ocr_results) ==
    IF ocr_results.none THEN <<>> ELSE words_of(ocr_results.lines)

\* C18: the aggregation keeps the detections with a confidence strictly above
\* OCR_CONFIDENCE_THRESHOLD whose text fix_code accepts; it returns None when
\* none is kept, and otherwise the accepted value with the highest count, and
\* of the values with that count the one that occurs first.
C18_AggregateMostCommonFirst ==
    probe.done =>
        LET ws == Detections(probe.arg)
            Kept(w) == /\ w.confidence > OCR_CONFIDENCE_THRESHOLD
                       /\ fix_code(PyStr(w.text)) # <<>>
            kept == SelectSeq(ws, Kept)
            vals == [i \in 1..Len(kept) |-> fix_code(PyStr(kept[i].text))]
            n(v) == Cardinality({i \in DOMAIN vals : vals[i] = v})
            first(v) == CHOOSE i \in DOMAIN vals :
                           vals[i] = v /\ \A j \in 1..(i - 1) : vals[j] # v
        IN  IF kept = <<>> THEN probe.ret = PyNone
            ELSE /\ probe.ret.type = "str"
                 /\ \E i \in DOMAIN vals : vals[i] = probe.ret.val
                 /\ \A j \in DOMAIN vals :
                       \/ n(vals[j]) < n(probe.ret.val)
                       \/ /\ n(vals[j]) = n(probe.ret.val)
                          /\ first(probe.ret.val) <= first(vals[j])

\* two values once each, a third detection exactly at the threshold: the
\* value detected first is returned
C18_Witness ==
    /\ probe.done
    /\ probe.arg = OcrLines(<<Line(<<Det(b10, 95), Det(A10, 90), Det(a10, 80)>>)>>)
    /\ probe.ret = PyStr(B10)

\* C19: while the operator does not interrupt the program, every trigger in
\* the queue is dequeued at some time and every capture cycle comes back to
\* the queue wait, whatever the camera's calls return.
C19_NoHang ==
    /\ \A id \in 1..MaxLiveMessages :
          InQueue(id) ~> (target_time.id >= id \/ pc \in {"cleanup", "exited"})
    /\ (pc \in {"capture", "publish"}) ~> (pc \in {"wait", "cleanup", "exited"})

\* every received trigger was dequeued, the cycles failed to fetch and the
\* last one to reconnect, and the loop waits again
C19_Witness ==
    /\ pc = "wait"
    /\ message_queue = <<>>
    /\ sent = MaxLiveMessages
    /\ target_time.id = Len(hist)
    /\ ~camera_initialized
    /\ consecutive_failures >= CAMERA_MAX_FAILURES

\* C20: at most one SDK session is open at any time, and none after the
\* teardown.
C20_SdkSessionBalanced ==
    /\ cam.inits - cam.finals \in {0, 1}
    /\ (pc = "exited" /\ mqtt_client = "stopped") => cam.inits = cam.finals

====
